---- MODULE Spec2Model ----
(***************************************************************************)
(* A model of dmf24util/process.py: wrappers around subprocess.Popen that  *)
(* spawn commands, collect (returncode, stdout, stderr), poll a batch with *)
(* a bounded number of retries, and run guarded / confirmed commands.      *)
(*                                                                         *)
(* The module is Python 2 code (raw_input, str pipes in the doctests), so  *)
(* Popen.poll, Popen.communicate and Popen.wait are modelled as Python     *)
(* 2.7's subprocess implements them on POSIX.  Child processes are OS      *)
(* processes that run concurrently with the (single-threaded) caller.      *)
(***************************************************************************)
EXTENDS Integers, Sequences, FiniteSets, TLC

(* ------------------------------ bounds -------------------------------- *)
\* longest command list handed to run_processes / processes
MaxCmds == 2
\* most bytes the children of one run write (to stdout and stderr together)
MaxWrites == 2
\* largest non-negative tries value handed to poll_processes
MaxTries == 2
\* most calls the caller makes on the handles of one batch
MaxCalls == 2
\* longest confirmation line typed at the prompt of dangerous_process
MaxLine == 2
\* most nested poll_processes frames the interpreter allows (scaled down from
\* CPython's default recursion limit of 1000)
RecursionLimit == 4

(* ------------------------------ values -------------------------------- *)
\* Python's None and an optional integer, as a sequence of length 0 or 1
None == <<>>
Some(c) == <<c>>

\* Command strings: one that runs, the empty string, and a missing executable
Commands == {"echo", "", "nosuchprog"}
\* shlex.split(cmd_string): the empty string has no tokens
shlex_split(cmd) == IF cmd = "" THEN <<>> ELSE <<cmd>>
\* executables the OS can start
Installed == {"echo"}

\* exit codes of a child: success and a failure
ExitCodes == {0, 2}
\* A pipe that holds MaxWrites bytes never fills, so larger capacities add nothing
PipeCaps == 1..MaxWrites
\* what a child does next: write a byte to stdout, to stderr, or exit
ChildOps == {"out", "err", "exit"}

\* the k-th byte a child writes to a stream is k: the stream's text is 1..n
Written(n) == [k \in 1..n |-> k]

CmdLists == UNION {[1..n -> Commands] : n \in 0..MaxCmds}

VARIABLES
  cap,      \* capacity of every OS pipe
  op,       \* the function of the module the caller called
  pc,       \* where the caller's thread is
  cmdlist,  \* the commands of the batch
  procs,    \* the Popen objects created so far, with their child processes
  cur,      \* loop index: the handle being awaited or polled
  results,  \* result triples collected so far
  frames,   \* the tries argument of every active poll_processes frame
  sleeps,   \* time.sleep calls made by the poll_processes call in progress
  passes,   \* completed for-loops over proclist in the call in progress
  tries0,   \* the tries argument the caller gave the call in progress
  last,     \* the function the caller called on the handles, while it runs
  again,    \* the process_results call in progress is on a collected handle
  calls,    \* calls the caller has made on the batch's handles
  exc,      \* the exception that ended the call, if any
  status,   \* the exit status of the calling program once sys.exit ran
  log,      \* writes to the sinks, the terminal and sudo, in order
  line,     \* the confirmation line typed by the user
  sudo,     \* dangerous_process's sudo argument
  first,    \* per handle: the triple its first process_results call returned
  inverted, \* in a processes batch, a child exited before one spawned earlier
  settled   \* every child had exited when the poll pass in progress began

vars == <<cap, op, pc, cmdlist, procs, cur, results, frames, sleeps, passes,
          tries0, last, again, calls, exc, status, log, line, sudo, first,
          inverted, settled>>

callerVars == <<op, pc, cmdlist, cur, results, frames, sleeps, passes, tries0,
                last, again, calls, exc, status, log, line, sudo, first>>

Init ==
  /\ cap \in PipeCaps
  /\ op = "none"
  /\ pc = "idle"
  /\ cmdlist = <<>>
  /\ procs = <<>>
  /\ cur = 0
  /\ results = <<>>
  /\ frames = <<>>
  /\ sleeps = 0
  /\ passes = 0
  /\ tries0 = 0
  /\ last = "none"
  /\ again = FALSE
  /\ calls = 0
  /\ exc = "none"
  /\ status = None
  /\ log = <<>>
  /\ line = <<>>
  /\ sudo = FALSE
  /\ first = <<>>
  /\ inverted = FALSE
  /\ settled = FALSE

(* ------------------------- child processes ---------------------------- *)
\* bytes the child of p has written or is committed to write
Committed(p) ==
  p.nout + p.nerr + (IF p.os = "running" /\ p.pend # "exit" THEN 1 ELSE 0)

RECURSIVE CommittedUpTo(_)
CommittedUpTo(n) ==
  IF n = 0 THEN 0 ELSE Committed(procs[n]) + CommittedUpTo(n - 1)

\* what a child may choose to do next when n bytes are written or committed
NextOps(n) == IF n < MaxWrites THEN ChildOps ELSE {"exit"}

\* The child of procs[i] writes one byte; write(2) blocks while the pipe is full
ChildWrite(i) ==
  /\ i \in 1..Len(procs)
  /\ procs[i].os = "running"
  /\ \/ /\ procs[i].pend = "out"
        /\ Len(procs[i].pout) < cap
        /\ \E nx \in NextOps(CommittedUpTo(Len(procs))) :
             procs' = [procs EXCEPT ![i].pout = Append(@, procs[i].nout + 1),
                                    ![i].nout = @ + 1,
                                    ![i].pend = nx]
     \/ /\ procs[i].pend = "err"
        /\ Len(procs[i].perr) < cap
        /\ \E nx \in NextOps(CommittedUpTo(Len(procs))) :
             procs' = [procs EXCEPT ![i].perr = Append(@, procs[i].nerr + 1),
                                    ![i].nerr = @ + 1,
                                    ![i].pend = nx]
  /\ UNCHANGED <<cap, callerVars, inverted, settled>>

\* The child exits with some code; the write ends of its pipes close
ChildExit(i) ==
  /\ i \in 1..Len(procs)
  /\ procs[i].os = "running"
  /\ procs[i].pend = "exit"
  /\ \E c \in ExitCodes :
       procs' = [procs EXCEPT ![i].os = "exited", ![i].code = Some(c)]
  /\ inverted' = (inverted \/ (op = "processes"
                                 /\ \E j \in 1..(i - 1) : procs[j].os = "running"))
  /\ UNCHANGED <<cap, callerVars, settled>>

(* --------------------------- process_run ------------------------------ *)
\* the Popen object of a freshly started child whose first operation is p
Popen(p) ==
  [os |-> "running", pend |-> p, nout |-> 0, nerr |-> 0,
   pout |-> <<>>, perr |-> <<>>, code |-> None,
   returncode |-> None, rout |-> <<>>, rerr |-> <<>>,
   fout |-> "open", ferr |-> "open"]

\* the exception Popen(shlex.split(cmd)) raises, or "none"
SpawnError(cmd) ==
  IF shlex_split(cmd) = <<>> THEN "IndexError"
  ELSE IF shlex_split(cmd)[1] \notin Installed THEN "OSError"
  ELSE "none"

\* mutant: a command that cannot be started is collected as a finished handle
\* and the batch goes on
process_run_collecting(cmd, next) ==
  /\ \E p \in NextOps(CommittedUpTo(Len(procs))) :
       procs' = Append(procs,
                  IF SpawnError(cmd) = "none" THEN Popen(p)
                  ELSE [Popen("exit") EXCEPT !.os = "exited", !.code = Some(2)])
  /\ pc' = next
  /\ exc' = exc

\* mutant: a spawn that fails is attempted again instead of raising
process_run_retrying(cmd, next) ==
  IF SpawnError(cmd) = "none"
  THEN /\ \E p \in NextOps(CommittedUpTo(Len(procs))) :
            procs' = Append(procs, Popen(p))
       /\ pc' = next
       /\ exc' = exc
  ELSE /\ pc' = pc
       /\ exc' = SpawnError(cmd)
       /\ procs' = procs

\* process_run(cmd_string): start the child and go on at `next`, or raise
\* what Popen raises
process_run(cmd, next) ==
  IF SpawnError(cmd) = "none"
  THEN /\ \E p \in NextOps(CommittedUpTo(Len(procs))) :
            procs' = Append(procs, Popen(p))
       /\ pc' = next
       /\ exc' = exc
  ELSE /\ pc' = "raised"
       /\ exc' = SpawnError(cmd)
       /\ procs' = procs

(* -------------------------- run_processes ----------------------------- *)
\* One iteration of [process_run(cmd) for cmd in cmdlist]
run_processes_step ==
  /\ pc = "spawn"
  /\ Len(procs) < Len(cmdlist)
  /\ process_run(cmdlist[Len(procs) + 1], "spawn")
  /\ UNCHANGED <<cap, op, cmdlist, cur, results, frames, sleeps, passes, tries0,
                 last, again, calls, status, log, line, sudo, first,
                 inverted, settled>>

\* mutant: processes starts to await as soon as one process is spawned
run_processes_return_early ==
  /\ pc = "spawn"
  /\ Len(procs) >= 1
  /\ pc' = IF op = "run_processes" THEN "caller" ELSE "process_results"
  /\ cur' = 1
  /\ first' = [i \in 1..Len(procs) |-> None]
  /\ UNCHANGED <<cap, op, cmdlist, procs, results, frames, sleeps, passes, tries0,
                 last, again, calls, exc, status, log, line, sudo,
                 inverted, settled>>

\* The list is complete and handed back: processes goes on to await the
\* handles in order, the caller of run_processes keeps them
run_processes_return ==
  /\ pc = "spawn"
  /\ Len(procs) = Len(cmdlist)
  /\ pc' = IF op = "run_processes" THEN "caller"
           ELSE IF Len(procs) = 0 THEN "returned" ELSE "process_results"
  /\ cur' = 1
  /\ first' = [i \in 1..Len(procs) |-> None]
  /\ UNCHANGED <<cap, op, cmdlist, procs, results, frames, sleeps, passes, tries0,
                 last, again, calls, exc, status, log, line, sudo,
                 inverted, settled>>

\* process(cmd_string), also as typical_process calls it: process_run, then
\* process_results on the new Popen object
process_spawn ==
  /\ pc = "process_run"
  /\ process_run(cmdlist[1], "process_results")
  /\ cur' = 1
  /\ first' = IF SpawnError(cmdlist[1]) = "none" THEN <<None>> ELSE first
  /\ UNCHANGED <<cap, op, cmdlist, results, frames, sleeps, passes, tries0,
                 last, again, calls, status, log, line, sudo,
                 inverted, settled>>

(* -------------------------- process_results --------------------------- *)
\* mutant: communicate() on closed files returns what was read before
communicate_error_cached(p) == "none"

\* Popen.communicate() starts by registering self.stdout and self.stderr with
\* a poll object; fileno() of a file object that an earlier communicate()
\* closed raises ValueError
communicate_error(p) ==
  IF p.fout = "closed" \/ p.ferr = "closed" THEN "ValueError" ELSE "none"

process_results_enter ==
  /\ pc = "process_results"
  /\ IF communicate_error(procs[cur]) = "none"
     THEN pc' = "communicate" /\ exc' = exc
     ELSE pc' = "raised" /\ exc' = communicate_error(procs[cur])
  /\ UNCHANGED <<cap, op, cmdlist, procs, cur, results, frames, sleeps, passes,
                 tries0, last, again, calls, status, log, line, sudo, first,
                 inverted, settled>>

\* mutant: stdout is read to end of file before stderr is read at all
ReadableInTurn(p, s) ==
  IF s = "out"
  THEN p.fout = "open" /\ (p.pout # <<>> \/ p.os = "exited")
  ELSE p.fout = "closed" /\ p.ferr = "open" /\ (p.perr # <<>> \/ p.os = "exited")

\* communicate() may read a stream when poll() reports it readable: its file
\* is still registered, and the pipe holds data or its write end is closed
Readable(p, s) ==
  IF s = "out"
  THEN p.fout = "open" /\ (p.pout # <<>> \/ p.os = "exited")
  ELSE p.ferr = "open" /\ (p.perr # <<>> \/ p.os = "exited")

\* os.read(fd, 4096) on a readable stream: the data in the pipe is appended to
\* the stream's output list; no data is end of file and closes the file
communicate_read(s) ==
  /\ pc = "communicate"
  /\ Readable(procs[cur], s)
  /\ procs' = [procs EXCEPT ![cur] =
       IF s = "out"
       THEN IF @.pout # <<>>
            THEN [@ EXCEPT !.rout = @ \o procs[cur].pout, !.pout = <<>>]
            ELSE [@ EXCEPT !.fout = "closed"]
       ELSE IF @.perr # <<>>
            THEN [@ EXCEPT !.rerr = @ \o procs[cur].perr, !.perr = <<>>]
            ELSE [@ EXCEPT !.ferr = "closed"]]
  /\ UNCHANGED <<cap, callerVars, inverted, settled>>

\* the while fd2file loop ends when both files are closed
communicate_done ==
  /\ pc = "communicate"
  /\ procs[cur].fout = "closed"
  /\ procs[cur].ferr = "closed"
  /\ pc' = "wait"
  /\ UNCHANGED <<cap, op, cmdlist, procs, cur, results, frames, sleeps, passes,
                 tries0, last, again, calls, exc, status, log, line, sudo, first,
                 inverted, settled>>

\* the returncode Popen.wait() leaves: the one already recorded, or the exit
\* code of the child it waited for
wait_status(p) == IF p.returncode = None THEN p.code ELSE p.returncode

\* the triple process_results returns for Popen object p
Triple(p) == <<p.returncode[1], p.rout, p.rerr>>

\* mutant: a finished handle's result is put in front of the list
collect_in_front(o, rs, t) == IF o = "processes" THEN <<t>> \o rs ELSE <<t>>

\* what the calling function holds once process_results returned triple t:
\* processes appends it to the list it builds, the others hold just t
collect(o, rs, t) == IF o = "processes" THEN Append(rs, t) ELSE <<t>>

\* mutant: a nonzero returncode ends the calling program
after_process_results_checked(o, more, t) ==
  IF t[1] # 0 THEN "exited"
  ELSE CASE o = "processes" -> IF more THEN "process_results" ELSE "returned"
         [] o = "run_processes" -> "caller"
         [] o = "process" -> "returned"
         [] OTHER -> "write_stderr"

\* where the calling function goes on with triple t in hand: processes takes
\* the next handle or returns the list, process returns t, the caller of
\* run_processes has it, typical_process starts writing; t is not looked at
after_process_results(o, more, t) ==
  CASE o = "processes" -> IF more THEN "process_results" ELSE "returned"
    [] o = "run_processes" -> "caller"
    [] o = "process" -> "returned"
    [] OTHER -> "write_stderr"

\* self.wait() at the end of communicate() blocks until the child has exited;
\* process_results then returns (returncode, stdout, stderr) to its caller
process_results_return ==
  /\ pc = "wait"
  /\ procs[cur].returncode # None \/ procs[cur].os = "exited"
  /\ procs' = [procs EXCEPT ![cur].returncode = wait_status(procs[cur])]
  /\ first' = IF first[cur] = None
              THEN [first EXCEPT ![cur] = Some(Triple(procs'[cur]))] ELSE first
  /\ results' = collect(op, results, Triple(procs'[cur]))
  /\ pc' = after_process_results(op, cur < Len(procs), Triple(procs'[cur]))
  /\ cur' = IF op = "processes" /\ cur < Len(procs) THEN cur + 1
            ELSE IF op = "run_processes" /\ ~again THEN 1 ELSE cur
  /\ last' = IF again THEN last ELSE "none"
  /\ UNCHANGED <<cap, op, cmdlist, frames, sleeps, passes, tries0, again,
                 calls, exc, status, log, line, sudo, inverted, settled>>

(* ----------------------------- processes ------------------------------ *)
\* processes(cmdlist): run_processes, then process_results on every handle
processes(cl) ==
  /\ pc = "idle"
  /\ op' = "processes"
  /\ cmdlist' = cl
  /\ pc' = "spawn"
  /\ UNCHANGED <<cap, procs, cur, results, frames, sleeps, passes, tries0, last,
                 again, calls, exc, status, log, line, sudo, first,
                 inverted, settled>>

\* process(cmd_string)
process(cmd) ==
  /\ pc = "idle"
  /\ op' = "process"
  /\ cmdlist' = <<cmd>>
  /\ pc' = "process_run"
  /\ UNCHANGED <<cap, procs, cur, results, frames, sleeps, passes, tries0, last,
                 again, calls, exc, status, log, line, sudo, first,
                 inverted, settled>>

(* --------------------------- poll_processes --------------------------- *)
Tries == 0..MaxTries
\* negative tries values: tries - 1 never reaches the 0 that line 87 tests
NegTries == {-1, -2}

\* every child of the list has exited (whether or not its handle knows)
AllExited == \A i \in 1..Len(procs) : procs[i].os = "exited"

\* the caller keeps the list run_processes(cmdlist) returns
run_processes(cl) ==
  /\ pc = "idle"
  /\ op' = "run_processes"
  /\ cmdlist' = cl
  /\ pc' = "spawn"
  /\ UNCHANGED <<cap, procs, cur, results, frames, sleeps, passes, tries0, last,
                 again, calls, exc, status, log, line, sudo, first,
                 inverted, settled>>

\* the caller calls poll_processes(proclist, tries=t) on the list
poll_processes(t) ==
  /\ pc = "caller"
  /\ calls < MaxCalls
  /\ calls' = calls + 1
  /\ last' = "poll_processes"
  /\ tries0' = t
  /\ frames' = <<t>>
  /\ sleeps' = 0
  /\ passes' = 0
  /\ cur' = 1
  /\ pc' = "poll"
  /\ settled' = AllExited
  /\ UNCHANGED <<cap, op, cmdlist, procs, results, again, exc, status, log, line,
                 sudo, first, inverted>>

\* the caller calls process_results on handle i of the list
process_results(i) ==
  /\ pc = "caller"
  /\ calls < MaxCalls
  /\ calls' = calls + 1
  /\ last' = "process_results"
  /\ again' = (first[i] # None)
  /\ cur' = i
  /\ pc' = "process_results"
  /\ UNCHANGED <<cap, op, cmdlist, procs, results, frames, sleeps, passes, tries0,
                 exc, status, log, line, sudo, first,
                 inverted, settled>>

\* mutant: a child that has not exited is given returncode 0
poll_status_default(p) ==
  IF p.returncode # None THEN p.returncode
  ELSE IF p.os = "exited" THEN p.code ELSE Some(0)

\* mutant: poll() asks the OS again although a returncode is recorded; the
\* child is reaped already and the returncode is reset to None
poll_status_unguarded(p) ==
  IF p.returncode = None /\ p.os = "exited" THEN p.code ELSE None

\* the returncode Popen.poll() leaves: waitpid(WNOHANG) reaps a child that has
\* exited, a running child and a recorded returncode stay as they are
poll_status(p) ==
  IF p.returncode = None /\ p.os = "exited" THEN p.code ELSE p.returncode

\* mutant: poll() also empties the pipes of the handle it polls
poll_one_draining ==
  /\ pc = "poll"
  /\ cur <= Len(procs)
  /\ procs' = [procs EXCEPT ![cur].returncode = poll_status(procs[cur]),
                            ![cur].pout = <<>>,
                            ![cur].perr = <<>>]
  /\ cur' = cur + 1
  /\ UNCHANGED <<cap, op, pc, cmdlist, results, frames, sleeps, passes, tries0,
                 last, again, calls, exc, status, log, line, sudo, first,
                 inverted, settled>>

\* for proc in proclist: proc.poll()  (one iteration)
poll_one ==
  /\ pc = "poll"
  /\ cur <= Len(procs)
  /\ procs' = [procs EXCEPT ![cur].returncode = poll_status(procs[cur])]
  /\ cur' = cur + 1
  /\ UNCHANGED <<cap, op, pc, cmdlist, results, frames, sleeps, passes, tries0,
                 last, again, calls, exc, status, log, line, sudo, first,
                 inverted, settled>>

\* [proc.returncode for proc in proclist]
returncodes == [i \in 1..Len(procs) |-> procs[i].returncode]

\* mutant: the tries != 0 guard is dropped
retry_without_guard(t, rcs) == \E i \in 1..Len(rcs) : rcs[i] = None

\* mutant: the retry ignores whether the processes have finished
retry_until_exhausted(t, rcs) == t # 0

\* tries!=0 and None in [proc.returncode for proc in proclist]
retry(t, rcs) == t # 0 /\ \E i \in 1..Len(rcs) : rcs[i] = None

\* the if after the for loop: sleep and recurse, or return proclist
poll_test ==
  /\ pc = "poll"
  /\ cur > Len(procs)
  /\ passes' = passes + 1
  /\ pc' = IF retry(frames[Len(frames)], returncodes) THEN "sleep" ELSE "poll_return"
  /\ UNCHANGED <<cap, op, cmdlist, procs, cur, results, frames, sleeps, tries0,
                 last, again, calls, exc, status, log, line, sudo, first,
                 inverted, settled>>

\* mutant: the retry starts a further process and polls it with the others
poll_sleep_respawning ==
  /\ pc = "sleep"
  /\ sleeps' = sleeps + 1
  /\ frames' = Append(frames, frames[Len(frames)] - 1)
  /\ procs' = Append(procs, Popen("exit"))
  /\ cur' = 1
  /\ pc' = "poll"
  /\ settled' = FALSE
  /\ UNCHANGED <<cap, op, cmdlist, results, passes, tries0, last, again,
                 calls, exc, status, log, line, sudo, first, inverted>>

\* mutant: after time.sleep(wait) the function returns without polling again
poll_sleep_then_return ==
  /\ pc = "sleep"
  /\ sleeps' = sleeps + 1
  /\ pc' = "poll_return"
  /\ UNCHANGED <<cap, op, cmdlist, procs, cur, results, frames, passes, tries0,
                 last, again, calls, exc, status, log, line, sudo, first,
                 inverted, settled>>

\* time.sleep(wait), then poll_processes(proclist, wait=wait, tries=tries-1):
\* the recursive call starts its own pass over the same list
poll_sleep ==
  /\ pc = "sleep"
  /\ Len(frames) < RecursionLimit
  /\ sleeps' = sleeps + 1
  /\ frames' = Append(frames, frames[Len(frames)] - 1)
  /\ cur' = 1
  /\ pc' = "poll"
  /\ settled' = AllExited
  /\ UNCHANGED <<cap, op, cmdlist, procs, results, passes, tries0, last, again,
                 calls, exc, status, log, line, sudo, first, inverted>>

\* time.sleep(wait), then the recursive call with the interpreter's stack at
\* its limit: the call raises RuntimeError (maximum recursion depth
\* exceeded), which no frame catches
poll_recursion_error ==
  /\ pc = "sleep"
  /\ Len(frames) = RecursionLimit
  /\ sleeps' = sleeps + 1
  /\ frames' = <<>>
  /\ pc' = "raised"
  /\ exc' = "RuntimeError"
  /\ UNCHANGED <<cap, op, cmdlist, procs, cur, results, passes, tries0, last,
                 again, calls, status, log, line, sudo, first, inverted,
                 settled>>

\* return proclist: the innermost frame returns to the frame that called it,
\* the outermost one to the caller
poll_return ==
  /\ pc = "poll_return"
  /\ frames' = SubSeq(frames, 1, Len(frames) - 1)
  /\ IF Len(frames) = 1
     THEN /\ pc' = "caller"
          /\ cur' = 1
          /\ sleeps' = 0
          /\ passes' = 0
          /\ tries0' = 0
          /\ last' = "none"
          /\ settled' = FALSE
     ELSE UNCHANGED <<pc, cur, sleeps, passes, tries0, last, settled>>
  /\ UNCHANGED <<cap, op, cmdlist, procs, results, again, calls, exc, status,
                 log, line, sudo, first, inverted>>

(* -------------------------- typical_process --------------------------- *)
\* typical_process(cmd_string, error_message): starts with process(cmd_string)
typical_process(cmd) ==
  /\ pc = "idle"
  /\ op' = "typical_process"
  /\ cmdlist' = <<cmd>>
  /\ pc' = "process_run"
  /\ UNCHANGED <<cap, procs, cur, results, frames, sleeps, passes, tries0, last,
                 again, calls, exc, status, log, line, sudo, first,
                 inverted, settled>>

\* one write call: the sink, what is written, and the bytes
Entry(to, what, data) == [to |-> to, what |-> what, data |-> data]

\* mutant: the captured stdout is written where stderr should be written
write_stdout_first ==
  /\ pc = "write_stderr"
  /\ log' = Append(log, Entry("stdout", "captured", results[1][2]))
  /\ pc' = "write_stdout"
  /\ UNCHANGED <<cap, op, cmdlist, procs, cur, results, frames, sleeps, passes,
                 tries0, last, again, calls, exc, status, line, sudo, first,
                 inverted, settled>>

\* stderr.write(results[2])
write_stderr ==
  /\ pc = "write_stderr"
  /\ log' = Append(log, Entry("stderr", "captured", results[1][3]))
  /\ pc' = "write_stdout"
  /\ UNCHANGED <<cap, op, cmdlist, procs, cur, results, frames, sleeps, passes,
                 tries0, last, again, calls, exc, status, line, sudo, first,
                 inverted, settled>>

\* stdout.write(results[1])
write_stdout ==
  /\ pc = "write_stdout"
  /\ log' = Append(log, Entry("stdout", "captured", results[1][2]))
  /\ pc' = "check_code"
  /\ UNCHANGED <<cap, op, cmdlist, procs, cur, results, frames, sleeps, passes,
                 tries0, last, again, calls, exc, status, line, sudo, first,
                 inverted, settled>>

\* mutant: only a negative returncode (death by signal) counts as failure
failed_by_signal(r) == r[1] < 0

\* results[0] != 0
failed(r) == r[1] # 0

\* if results[0] != 0: ... ; return results
\* (dangerous_process drops the value and returns None)
check_code ==
  /\ pc = "check_code"
  /\ pc' = IF failed(results[1]) THEN "write_message" ELSE "returned"
  /\ UNCHANGED <<cap, op, cmdlist, procs, cur, results, frames, sleeps, passes,
                 tries0, last, again, calls, exc, status, log, line, sudo, first,
                 inverted, settled>>

\* stderr.write(error_message)
write_message ==
  /\ pc = "write_message"
  /\ log' = Append(log, Entry("stderr", "error_message", <<>>))
  /\ pc' = "sys_exit"
  /\ UNCHANGED <<cap, op, cmdlist, procs, cur, results, frames, sleeps, passes,
                 tries0, last, again, calls, exc, status, line, sudo, first,
                 inverted, settled>>

\* the exit status of the interpreter after sys.exit(c): the low byte of c
exit_status(c) == c % 256

\* sys.exit(results[0])
sys_exit ==
  /\ pc = "sys_exit"
  /\ status' = Some(exit_status(results[1][1]))
  /\ pc' = "exited"
  /\ UNCHANGED <<cap, op, cmdlist, procs, cur, results, frames, sleeps, passes,
                 tries0, last, again, calls, exc, log, line, sudo, first,
                 inverted, settled>>

(* ------------------------- dangerous_process -------------------------- *)
\* characters typed at the prompt
Chars == {"y", "Y", "n", "N"}
Upper(c) == IF c = "y" THEN "Y" ELSE IF c = "n" THEN "N" ELSE c
Lower(c) == IF c = "Y" THEN "y" ELSE IF c = "N" THEN "n" ELSE c

\* str.capitalize(): the first character upper-cased, the rest lower-cased
capitalize(str) ==
  [k \in 1..Len(str) |-> IF k = 1 THEN Upper(str[k]) ELSE Lower(str[k])]

\* the lines the user may type (without the newline raw_input strips)
Lines == UNION {[1..n -> Chars] : n \in 0..MaxLine}
\* standard input at end of file instead of a line
EOF == <<"EOF">>

\* dangerous_process(cmd_string, sudo=su) with the user about to type ln
dangerous_process(cmd, su, ln) ==
  /\ pc = "idle"
  /\ op' = "dangerous_process"
  /\ cmdlist' = <<cmd>>
  /\ sudo' = su
  /\ line' = ln
  /\ pc' = "print_running"
  /\ UNCHANGED <<cap, procs, cur, results, frames, sleeps, passes, tries0, last,
                 again, calls, exc, status, log, first, inverted, settled>>

\* sys.stdout.write("Running: %s\n" % cmd_string)
print_running ==
  /\ pc = "print_running"
  /\ log' = Append(log, Entry("sys.stdout", "Running", <<>>))
  /\ pc' = "raw_input"
  /\ UNCHANGED <<cap, op, cmdlist, procs, cur, results, frames, sleeps, passes,
                 tries0, last, again, calls, exc, status, line, sudo, first,
                 inverted, settled>>

\* checkval = raw_input("Confirm [y/N]:"): the prompt is written, a line is
\* read; end of file raises EOFError
raw_input ==
  /\ pc = "raw_input"
  /\ log' = Append(log, Entry("sys.stdout", "prompt", <<>>))
  /\ IF line = EOF
     THEN pc' = "raised" /\ exc' = "EOFError"
     ELSE pc' = "confirm" /\ exc' = exc
  /\ UNCHANGED <<cap, op, cmdlist, procs, cur, results, frames, sleeps, passes,
                 tries0, last, again, calls, status, line, sudo, first,
                 inverted, settled>>

\* mutant: only the first character of the line is looked at
confirmed_by_first(checkval) == checkval # <<>> /\ Upper(checkval[1]) = "Y"

\* checkval.capitalize() == 'Y'
confirmed(checkval) == capitalize(checkval) = <<"Y">>

\* mutant: with sudo set, sudo -v is run before the answer is looked at
confirm_after_validation ==
  /\ pc = "confirm"
  /\ pc' = IF sudo THEN "validate_sudo"
           ELSE IF confirmed(line) THEN "process_run" ELSE "returned"
  /\ UNCHANGED <<cap, op, cmdlist, procs, cur, results, frames, sleeps, passes,
                 tries0, last, again, calls, exc, status, log, line, sudo, first,
                 inverted, settled>>

\* if checkval.capitalize() == 'Y': if sudo: validate_sudo(); typical_process(...)
\* otherwise the function ends and returns None
confirm ==
  /\ pc = "confirm"
  /\ pc' = IF confirmed(line)
           THEN IF sudo THEN "validate_sudo" ELSE "process_run"
           ELSE "returned"
  /\ UNCHANGED <<cap, op, cmdlist, procs, cur, results, frames, sleeps, passes,
                 tries0, last, again, calls, exc, status, log, line, sudo, first,
                 inverted, settled>>

\* validate_sudo(): subprocess.call(['sudo', '-v'])
validate_sudo ==
  /\ pc = "validate_sudo"
  /\ log' = Append(log, Entry("sudo", "sudo -v", <<>>))
  /\ pc' = "process_run"
  /\ UNCHANGED <<cap, op, cmdlist, procs, cur, results, frames, sleeps, passes,
                 tries0, last, again, calls, exc, status, line, sudo, first,
                 inverted, settled>>

(* --------------------------- specifications -------------------------- *)
\* the steps of the child processes
Children ==
  \/ \E i \in 1..Len(procs) : ChildWrite(i)
  \/ \E i \in 1..Len(procs) : ChildExit(i)

\* the steps inside run_processes
Spawning ==
  \/ run_processes_step
  \/ run_processes_return

\* the steps inside process_results
Awaiting ==
  \/ process_results_enter
  \/ \E s \in {"out", "err"} : communicate_read(s)
  \/ communicate_done
  \/ process_results_return

\* the steps inside poll_processes
Polling ==
  \/ poll_one
  \/ poll_test
  \/ poll_sleep
  \/ poll_return

\* the steps inside typical_process after process() has returned
Guarding ==
  \/ write_stderr
  \/ write_stdout
  \/ check_code
  \/ write_message
  \/ sys_exit

\* the steps of dangerous_process before typical_process
Confirming ==
  \/ print_running
  \/ raw_input
  \/ confirm
  \/ validate_sudo

\* One call of a function that runs commands to completion: processes,
\* process, typical_process or dangerous_process
NextRun ==
  \/ \E cl \in CmdLists : processes(cl)
  \/ \E cmd \in Commands : process(cmd)
  \/ \E cmd \in Commands : typical_process(cmd)
  \/ \E cmd \in Commands, su \in BOOLEAN, ln \in Lines \cup {EOF} :
       dangerous_process(cmd, su, ln)
  \/ Children
  \/ Spawning
  \/ process_spawn
  \/ Awaiting
  \/ Guarding
  \/ Confirming

SpecRun == Init /\ [][NextRun]_vars

\* process(cmd_string) alone: one child and the process_results call on it
NextPipe ==
  \/ \E cmd \in Commands : process(cmd)
  \/ Children
  \/ process_spawn
  \/ Awaiting

\* The OS schedules a child that can run, and the caller's thread runs
FairPipe ==
  /\ Init /\ [][NextPipe]_vars
  /\ WF_vars(ChildWrite(1) \/ ChildExit(1))
  /\ WF_vars(process_spawn \/ Awaiting)

\* poll_processes(run_processes(cmdlist), tries=t) with 0 <= t <= MaxTries: the
\* nesting of the retries stays below the interpreter's recursion limit
NextPoll ==
  \/ \E cl \in CmdLists : run_processes(cl)
  \/ \E t \in Tries : calls = 0 /\ poll_processes(t)
  \/ Children
  \/ Spawning
  \/ Polling

SpecPoll == Init /\ [][NextPoll]_vars

\* poll_processes(run_processes(cmdlist), tries=t) with t negative
NextForever ==
  \/ \E cl \in CmdLists : run_processes(cl)
  \/ \E t \in NegTries : calls = 0 /\ poll_processes(t)
  \/ Children
  \/ Spawning
  \/ Polling
  \/ poll_recursion_error

SpecForever == Init /\ [][NextForever]_vars

\* run_processes(cmdlist), then up to MaxCalls calls of process_results on
\* the handles, in any order
NextAwait ==
  \/ \E cl \in CmdLists : run_processes(cl)
  \/ \E i \in 1..Len(procs) : process_results(i)
  \/ Children
  \/ Spawning
  \/ Awaiting

SpecAwait == Init /\ [][NextAwait]_vars

\* command lists of one or two commands
ScriptLists == {cl \in CmdLists : Len(cl) \in {1, 2}}

\* run_processes on one or two commands, then up to MaxCalls calls of
\* poll_processes and process_results on the handles, in any order
NextScript ==
  \/ \E cl \in ScriptLists : run_processes(cl)
  \/ \E t \in Tries : poll_processes(t)
  \/ \E i \in 1..Len(procs) : process_results(i)
  \/ Children
  \/ Spawning
  \/ Awaiting
  \/ Polling

SpecScript == Init /\ [][NextScript]_vars

(* ------------------------------ claims -------------------------------- *)
\* a poll_processes call made by the caller is in progress
InPoll == last = "poll_processes"
\* some handle of the list has no returncode yet
SomeUnknown == \E i \in 1..Len(procs) : procs[i].returncode = None
\* some child of the list is still running
SomeRunning == \E i \in 1..Len(procs) : procs[i].os = "running"
\* the outermost poll_processes frame is at its return statement
PollReturning == InPoll /\ pc = "poll_return" /\ Len(frames) = 1

\* C1: poll_processes called with tries = 0 makes exactly one pass over the
\* handles, never sleeps and never recurses, never blocks or raises, and is
\* at its return statement once the pass is done, whatever the list is and
\* whether or not some child is still running.
C1_TriesZeroOnePass ==
  (InPoll /\ tries0 = 0) =>
    /\ sleeps = 0
    /\ frames = <<0>>
    /\ pc \in {"poll", "poll_return"}
    /\ (pc = "poll") = (passes = 0)
    /\ (pc = "poll_return") = (passes = 1)
    /\ exc = "none"
    /\ ENABLED Polling

\* C1 witness: the call with tries = 0 returns after its one pass over a
\* list of two handles while a child is still running
C1_Witness ==
  /\ PollReturning /\ tries0 = 0 /\ passes = 1
  /\ Len(procs) = 2 /\ SomeRunning /\ SomeUnknown

\* C2: one call with tries = T >= 0 sleeps at most T times, and it goes to
\* sleep only after a pass that left some handle without a returncode: after
\* a pass in which every handle is terminal it returns, tries left or not.
C2_BoundedSleepsEarlyExit ==
  InPoll =>
    /\ tries0 >= 0
    /\ sleeps <= tries0
    /\ Len(frames) <= tries0 + 1
    /\ (pc = "sleep" => SomeUnknown /\ sleeps < tries0)
    /\ (pc = "poll_return" /\ Len(frames) = sleeps + 1 /\ SomeUnknown
          => frames[Len(frames)] = 0)

\* C2 witness: after one sleep every handle of a two-element list is
\* terminal and the call returns although a try is left
C2_Witness ==
  /\ InPoll /\ pc = "poll_return" /\ Len(procs) = 2 /\ ~SomeUnknown
  /\ sleeps = 1 /\ frames[Len(frames)] > 0

Wrote(p) == <<p.code[1], Written(p.nout), Written(p.nerr)>>

\* C4: processes(cmdlist) returns one result per command, and the i-th result
\* is the exit code, stdout and stderr of the i-th command's child, in
\* whatever order the children terminate (also for the results collected so
\* far while it runs).
C4_ResultsInInputOrder ==
  op = "processes" =>
    /\ Len(results) <= Len(procs)
    /\ \A i \in 1..Len(results) :
         procs[i].os = "exited" /\ results[i] = Wrote(procs[i])
    /\ (pc = "returned" =>
          Len(results) = Len(cmdlist) /\ Len(procs) = Len(cmdlist))

\* C4 witness: two commands with different results, the second one's child
\* exited first, and processes has returned both
C4_Witness ==
  /\ op = "processes" /\ pc = "returned" /\ inverted
  /\ Len(results) = 2 /\ results[1] # results[2]

\* the commands of the batch that can be started
Spawnable == {k \in 1..Len(cmdlist) : SpawnError(cmdlist[k]) = "none"}
\* the call ended with the exception of a failed spawn
SpawnRaised == pc = "raised" /\ exc \in {"IndexError", "OSError"}

\* C6 as stated: a spawn failure for one command does not keep run_processes
\* from spawning the others; every command that can be started is started.
C6_Original ==
  (op = "processes" /\ SpawnRaised) => Len(procs) = Cardinality(Spawnable)

\* C6 amended: the first spawn failure ends run_processes with the exception:
\* only the commands before the failing one were started, no command after
\* it is ever started, and no handle and no result reaches the caller.
C6_SpawnFailureAborts ==
  op = "processes" =>
    /\ \A k \in 1..Len(procs) : k \in Spawnable
    /\ (SpawnRaised =>
          /\ Len(procs) < Len(cmdlist)
          /\ Len(procs) + 1 \notin Spawnable
          /\ results = <<>>
          /\ \A k \in 1..Len(procs) :
               procs[k].returncode = None /\ procs[k].fout = "open")
    /\ (Spawnable # 1..Len(cmdlist) => pc \in {"spawn", "raised"})

\* C6 witness: the first command cannot be started, the second could be, and
\* the call has ended with no process spawned
C6_Witness ==
  /\ op = "processes" /\ SpawnRaised /\ Len(cmdlist) = 2
  /\ 1 \notin Spawnable /\ 2 \in Spawnable /\ procs = <<>>

\* the log holds the error message
MessageWritten == \E k \in 1..Len(log) : log[k].what = "error_message"

\* C7: typical_process with a child that exits with a nonzero code c writes
\* the error message to the error sink and ends the program with status c,
\* returning nothing; with code 0 it returns the triple and neither writes
\* the message nor exits.
C7_GuardedExit ==
  op = "typical_process" =>
    /\ (pc = "exited" =>
          /\ procs[1].code # Some(0)
          /\ status = procs[1].code
          /\ log[Len(log)] = Entry("stderr", "error_message", <<>>))
    /\ (pc = "returned" =>
          /\ procs[1].code = Some(0)
          /\ results = <<Wrote(procs[1])>>
          /\ status = None
          /\ ~MessageWritten)
    /\ (status # None => pc = "exited")
    /\ (MessageWritten => pc \in {"sys_exit", "exited"})
    /\ (procs # <<>> /\ procs[1].code = Some(0) =>
          pc \notin {"write_message", "sys_exit", "exited"})
    /\ (pc = "check_code" => ENABLED check_code)

\* C7 witness: the child exited with code 2 and the program ended with 2
C7_Witness ==
  /\ op = "typical_process" /\ pc = "exited" /\ status = Some(2)
  /\ procs[1].code = Some(2) /\ MessageWritten

\* dangerous_process has read the confirmation line and decided
PastConfirm ==
  /\ op = "dangerous_process"
  /\ pc \notin {"print_running", "raw_input", "confirm"}
  /\ exc # "EOFError"
\* it ended without going on to typical_process
Declined == pc = "returned" /\ procs = <<>>
\* the two writes to the terminal that precede the read
Preamble ==
  <<Entry("sys.stdout", "Running", <<>>), Entry("sys.stdout", "prompt", <<>>)>>

\* C8 as stated: the command is run exactly when the first character of the
\* line is 'Y' or 'y'.
C8_Original ==
  PastConfirm => (~Declined <=> (line # <<>> /\ line[1] \in {"y", "Y"}))

\* C8 amended: the command is run exactly when the whole line is "Y" or "y";
\* for every other line no process is spawned, no error is raised, the
\* program is not ended, and nothing is written besides the "Running:" line
\* and the prompt that are printed before the line is read.
C8_ConfirmWholeLine ==
  PastConfirm =>
    /\ (~Declined <=> line \in {<<"y">>, <<"Y">>})
    /\ (Declined =>
          /\ log = Preamble
          /\ exc = "none"
          /\ status = None
          /\ results = <<>>)
    /\ (~Declined /\ pc \in {"validate_sudo", "process_run"} => procs = <<>>)

\* C8 witness: the user typed "y" and the command has run and returned
C8_Witness ==
  /\ op = "dangerous_process" /\ line = <<"y">> /\ pc = "returned"
  /\ procs # <<>> /\ results = <<Wrote(procs[1])>>

\* C5 as stated: a second process_results call on a collected handle does not
\* fail and returns the triple the first call returned.
C5_Original ==
  again =>
    /\ pc # "raised"
    /\ (pc = "caller" => results = first[cur])

\* C5 amended: a second process_results call on a collected handle returns
\* no triple: communicate() finds the handle's files closed and raises
\* ValueError before it reads or waits, so the call does not block; the
\* handle and the triple of the first call stay as they were.
C5_SecondAwaitRaises ==
  again =>
    /\ pc \in {"process_results", "raised"}
    /\ (pc = "raised" => exc = "ValueError")
    /\ first[cur] = Some(Triple(procs[cur]))
    /\ first[cur] = Some(Wrote(procs[cur]))
    /\ procs[cur].fout = "closed" /\ procs[cur].ferr = "closed"
    /\ (pc = "process_results" => ENABLED process_results_enter)

\* C5 witness: the second call on a handle whose child wrote output has
\* ended with ValueError
C5_Witness ==
  /\ again /\ pc = "raised" /\ exc = "ValueError"
  /\ procs[cur].rout # <<>> /\ first[cur] # None

\* process_results is running on handle i
Awaited(i) == pc \in {"process_results", "communicate", "wait"} /\ cur = i

\* C9: process_results on a child that writes a bounded number of bytes to
\* stdout and stderr and then exits always returns, whatever the capacity of
\* the pipes and however the child interleaves its writes, and the stdout and
\* stderr it returns are exactly the bytes the child wrote, in order.
C9_AwaitTerminatesExact ==
  /\ (op = "process" /\ pc = "process_run") ~> (pc \in {"returned", "raised"})
  /\ Awaited(1) ~> (pc = "returned")
  /\ [](\A i \in 1..Len(first) :
          first[i] # None => first[i] = Some(Wrote(procs[i])))
  /\ [](exc \notin {"ValueError"})

\* C9 witness: with pipes of one byte a child wrote two bytes to stderr and
\* its results have been returned
C9_Witness ==
  /\ cap = 1 /\ procs # <<>> /\ procs[1].nerr = 2
  /\ first # <<>> /\ first[1] # None /\ first[1] = Some(Wrote(procs[1]))

\* C10: process and processes hand a nonzero exit code back as data: they
\* raise nothing (only a failed spawn raises), never end the program, and
\* processes goes on to await and return every later command's result; the
\* program is ended only by typical_process, alone or under
\* dangerous_process, and these never return a nonzero code.
C10_NonzeroIsData ==
  /\ (status # None \/ pc = "exited" =>
        op \in {"typical_process", "dangerous_process"})
  /\ (op \in {"process", "processes"} =>
        /\ exc \in {"none", "IndexError", "OSError"}
        /\ (pc = "raised" => Len(procs) < Len(cmdlist))
        /\ pc \in {"spawn", "process_run", "process_results", "communicate",
                   "wait", "returned", "raised"}
        /\ (pc = "returned" =>
              /\ Len(results) = Len(cmdlist)
              /\ \A i \in 1..Len(results) : results[i][1] = procs[i].code[1]))
  /\ (op \in {"typical_process", "dangerous_process"}
        /\ pc = "returned" /\ results # <<>> => results[1][1] = 0)
  /\ (op \in {"typical_process", "dangerous_process"}
        /\ pc = "exited" => status = procs[1].code /\ status # Some(0))

\* C10 witness: the first command of a batch failed with code 2 and
\* processes returned both results
C10_Witness ==
  /\ op = "processes" /\ pc = "returned" /\ Len(results) = 2
  /\ results[1][1] = 2 /\ results[2][1] = 0

\* the functions that run commands to completion
Wrappers == {"process", "processes", "typical_process", "dangerous_process"}
\* the call is past its spawns: a handle is being awaited or a triple is held
PastSpawn ==
  results # <<>> \/ pc \in {"process_results", "communicate", "wait"}

\* C11: a command that tokenizes to nothing (IndexError) or that the OS
\* cannot start (OSError) makes process_run raise at the spawn, and the
\* exception ends process, processes, typical_process and dangerous_process
\* alike: it is the failing command's own exception, nothing was awaited,
\* written or exited before it, no result triple exists, the call never gets
\* past its spawns in any other way, and once raised the call stays ended:
\* the spawn is not tried again and no process is started afterwards.
C11_SpawnFailureReachesCaller ==
  /\ [](op \in Wrappers =>
         /\ (exc \in {"IndexError", "OSError"} => pc = "raised")
         /\ (SpawnRaised =>
               /\ Len(procs) < Len(cmdlist)
               /\ exc = SpawnError(cmdlist[Len(procs) + 1])
               /\ results = <<>>
               /\ status = None
               /\ \A k \in 1..Len(log) : log[k].what # "captured"
               /\ \A k \in 1..Len(procs) :
                    /\ procs[k].returncode = None
                    /\ procs[k].rout = <<>> /\ procs[k].rerr = <<>>
                    /\ procs[k].fout = "open" /\ procs[k].ferr = "open")
         /\ (PastSpawn => Spawnable = 1..Len(cmdlist)))
  /\ [][pc = "raised" =>
          /\ UNCHANGED callerVars
          /\ Len(procs') = Len(procs)]_vars

\* C11 witness: typical_process was given a command whose executable does not
\* exist; the call has ended with OSError, nothing spawned and nothing written
C11_Witness ==
  /\ op = "typical_process" /\ pc = "raised" /\ exc = "OSError"
  /\ cmdlist = <<"nosuchprog">> /\ procs = <<>> /\ log = <<>>

\* no communicate() has touched handle p: nothing read, no file closed, no
\* returncode recorded
Untouched(p) ==
  /\ p.returncode = None
  /\ p.rout = <<>> /\ p.rerr = <<>>
  /\ p.fout = "open" /\ p.ferr = "open"
\* process_results has returned for handle p
Collected(p) == p.returncode # None /\ p.fout = "closed" /\ p.ferr = "closed"

\* C12: processes(cmdlist) spawns every command before it awaits any handle
\* and then awaits the handles one at a time in input order: while a command
\* is unspawned no handle has been touched and no result exists, an await
\* runs only when all commands are spawned, the handle awaited is the one
\* after the results collected so far, every handle before it is collected
\* and every handle after it is untouched.
C12_SpawnAllThenAwaitInOrder ==
  op = "processes" =>
    /\ (Len(procs) < Len(cmdlist) =>
          /\ pc \in {"spawn", "raised"}
          /\ results = <<>>
          /\ \A i \in 1..Len(procs) : Untouched(procs[i]))
    /\ (pc = "spawn" => \A i \in 1..Len(procs) : Untouched(procs[i]))
    /\ (pc \in {"process_results", "communicate", "wait"} =>
          /\ Len(procs) = Len(cmdlist)
          /\ cur \in 1..Len(procs)
          /\ cur = Len(results) + 1
          /\ \A i \in 1..(cur - 1) : Collected(procs[i])
          /\ \A i \in (cur + 1)..Len(procs) : Untouched(procs[i])
          /\ (pc = "process_results" => Untouched(procs[cur])))
    /\ (pc = "returned" => \A i \in 1..Len(procs) : Collected(procs[i]))

\* C12 witness: the second of two handles is being awaited after its child
\* has long exited, the first one is collected
C12_Witness ==
  /\ op = "processes" /\ pc = "communicate" /\ cur = 2 /\ Len(procs) = 2
  /\ Collected(procs[1]) /\ Len(results) = 1 /\ inverted

\* C13: poll_processes alternates passes and sleeps and ends with a pass:
\* while a pass runs as many passes as sleeps are complete, and at a sleep
\* and at the return there is one pass more than sleeps, so every sleep is
\* followed by a pass before the call returns.  The returncodes at the
\* return are what that last pass left: an integer is the exit code of the
\* handle's child, and when every child had exited by the time the last pass
\* began no handle is returned with returncode None.
C13_LastPassAfterLastSleep ==
  InPoll =>
    /\ (pc = "poll" => passes = sleeps)
    /\ (pc = "sleep" => passes = sleeps + 1)
    /\ (pc = "poll_return" => passes = sleeps + 1)
    /\ (pc = "poll_return" /\ settled => ~SomeUnknown)
    /\ \A i \in 1..Len(procs) :
         procs[i].returncode # None =>
           procs[i].os = "exited" /\ procs[i].returncode = procs[i].code

\* C13 witness: the first pass left a handle without returncode, the children
\* exited during the sleep, and the call returns from its second pass with an
\* integer for both handles
C13_Witness ==
  /\ PollReturning /\ sleeps = 1 /\ passes = 2 /\ settled
  /\ Len(procs) = 2
  /\ \A i \in 1..2 : procs[i].returncode \in {Some(c) : c \in ExitCodes}

\* the writes to the error sink and the output sink, in order
IsSinkWrite(e) == e.to \in {"stderr", "stdout"}
SinkWrites == SelectSeq(log, IsSinkWrite)
\* the two writes of what the child wrote: stderr first, then stdout
CapturedWrites ==
  <<Entry("stderr", "captured", Written(procs[1].nerr)),
    Entry("stdout", "captured", Written(procs[1].nout))>>

\* C14: typical_process (alone or under dangerous_process) first writes the
\* child's stderr to the error sink, then its stdout to the output sink,
\* whatever the exit code: both writes are done before the code is looked at.
\* When it returns these are the only writes; when the code is nonzero the
\* error message is the third write, and the program has ended only after it.
C14_StderrThenStdoutThenMessage ==
  op \in {"typical_process", "dangerous_process"} =>
    /\ (pc = "write_stderr" => SinkWrites = <<>>)
    /\ (pc = "write_stdout" => SinkWrites = SubSeq(CapturedWrites, 1, 1))
    /\ (pc \in {"check_code", "write_message"} => SinkWrites = CapturedWrites)
    /\ (pc = "returned" /\ procs # <<>> => SinkWrites = CapturedWrites)
    /\ (pc \in {"sys_exit", "exited"} =>
          SinkWrites = Append(CapturedWrites,
                              Entry("stderr", "error_message", <<>>)))
    /\ (status # None => Len(SinkWrites) = 3 /\ pc = "exited")
    /\ (pc \notin {"write_stderr", "write_stdout", "check_code",
                   "write_message", "returned", "sys_exit", "exited"} =>
          SinkWrites = <<>>)

\* C14 witness: the child wrote a byte to each stream and exited with 2; the
\* three writes are done and the program has ended
C14_Witness ==
  /\ op = "typical_process" /\ pc = "exited" /\ Len(SinkWrites) = 3
  /\ procs[1].nout = 1 /\ procs[1].nerr = 1
  /\ SinkWrites[1].data = <<1>> /\ SinkWrites[2].data = <<1>>

\* sudo -v has been run
SudoRan == \E k \in 1..Len(log) : log[k].to = "sudo"
\* the user typed an affirmative line
Affirmed == line \in {<<"y">>, <<"Y">>}
\* the spawn of the command has been attempted
SpawnTried == procs # <<>> \/ SpawnRaised

\* C15: dangerous_process prints the "Running:" line before it prompts and
\* reads the answer.  sudo -v runs at most once, only with sudo set and an
\* affirmative answer, after the answer was read and before the spawn of the
\* command is attempted; with sudo set the spawn is never attempted without
\* it.  After any other answer the call has returned with no validation and
\* no process, and with sudo unset no validation is ever run.
C15_ConfirmThenValidateThenSpawn ==
  op = "dangerous_process" =>
    /\ (pc = "print_running" => log = <<>>)
    /\ (pc = "raw_input" => log = SubSeq(Preamble, 1, 1))
    /\ (pc # "print_running" => log # <<>> /\ log[1] = Preamble[1])
    /\ (SudoRan =>
          /\ sudo /\ Affirmed /\ PastConfirm
          /\ pc # "validate_sudo"
          /\ Len(log) >= 3
          /\ SubSeq(log, 1, 3) = Append(Preamble, Entry("sudo", "sudo -v", <<>>))
          /\ \A k \in 4..Len(log) : log[k].to # "sudo")
    /\ (pc = "validate_sudo" => sudo /\ Affirmed /\ ~SpawnTried)
    /\ (pc = "process_run" => Affirmed /\ ~SpawnTried /\ (sudo => SudoRan))
    /\ (SpawnTried => Affirmed /\ PastConfirm /\ (sudo => SudoRan))
    /\ (PastConfirm /\ ~Affirmed => pc = "returned" /\ ~SudoRan /\ ~SpawnTried)
    /\ (exc = "EOFError" => pc = "raised" /\ ~SudoRan /\ ~SpawnTried)

\* C15 witness: with sudo set the user typed "Y"; sudo -v ran right after the
\* prompt and the command ran afterwards
C15_Witness ==
  /\ op = "dangerous_process" /\ sudo /\ line = <<"Y">>
  /\ Len(log) = 5 /\ log[3].to = "sudo" /\ log[4].what = "captured"
  /\ procs # <<>> /\ procs[1].os = "exited"

\* what the Popen object p holds besides its returncode: the data read from
\* its pipes and the state of its pipe files
HandleIO(p) == <<p.rout, p.rerr, p.fout, p.ferr>>
\* handle q is handle p with at most another returncode
SameButStatus(p, q) == q = [p EXCEPT !.returncode = q.returncode]

C18_Original ==
  (InPoll /\ tries0 < 0) =>
    /\ \A k \in 1..Len(frames) : frames[k] < 0
    /\ (pc = "poll_return" => ~SomeUnknown)
    /\ exc = "none"
    /\ pc \in {"poll", "sleep", "poll_return"}

\* C16: a returncode that a poll pass or an await has recorded is final: no
\* step of any later pass, retry or await, on this handle or another,
\* changes it or resets it to None, and the handle stays in the list.  The
\* recorded value is the exit code of the handle's child, and it is the code
\* in the triple the handle's first await returned.
C16_TerminalStatusIsFinal ==
  /\ [][\A i \in 1..Len(procs) :
          procs[i].returncode # None =>
            /\ i <= Len(procs')
            /\ procs'[i].returncode = procs[i].returncode]_vars
  /\ [](\A i \in 1..Len(procs) :
          procs[i].returncode # None =>
            /\ procs[i].os = "exited"
            /\ procs[i].returncode = procs[i].code
            /\ (i <= Len(first) /\ first[i] # None =>
                  procs[i].returncode = Some(first[i][1][1])))

\* C16 witness: a handle whose await returned a code has since been polled
\* in a pass of poll_processes, after a sleep, and still holds that code
C16_Witness ==
  /\ InPoll /\ sleeps >= 1 /\ pc = "poll_return" /\ Len(procs) = 2
  /\ first[1] # None /\ procs[1].returncode = Some(first[1][1][1])
  /\ procs[2].returncode = None

\* the child of p is stopped in a write to a pipe that is full
Blocked(p) ==
  /\ p.os = "running"
  /\ \/ p.pend = "out" /\ Len(p.pout) = cap
     \/ p.pend = "err" /\ Len(p.perr) = cap
\* a step takes data out of the pipe the child of handle i is blocked on
Drains(i) ==
  IF procs[i].pend = "out"
  THEN Len(procs'[i].pout) < Len(procs[i].pout)
  ELSE Len(procs'[i].perr) < Len(procs[i].perr)

\* C19: a child that is blocked writing to a full stdout or stderr pipe has
\* not exited and its handle has no returncode.  It stays so over every step
\* of poll_processes, whatever the tries: no pass takes anything out of a
\* pipe.  The only step that ends the blocking is a read of that pipe by the
\* communicate() of a process_results call on this very handle.
C19_BlockedChildNeedsAwait ==
  /\ [](\A i \in 1..Len(procs) :
          Blocked(procs[i]) =>
            procs[i].returncode = None /\ procs[i].code = None)
  /\ [][/\ Len(procs') >= Len(procs)
        /\ \A i \in 1..Len(procs) :
             /\ (InPoll =>
                   /\ Len(procs'[i].pout) >= Len(procs[i].pout)
                   /\ Len(procs'[i].perr) >= Len(procs[i].perr))
             /\ (Blocked(procs[i]) =>
                   \/ Blocked(procs'[i]) /\ ~Drains(i)
                   \/ pc = "communicate" /\ cur = i /\ ~InPoll /\ Drains(i))]_vars

\* C19 witness: with all its tries used up poll_processes returns while a
\* child is blocked on a full pipe, its handle still without returncode
C19_Witness ==
  /\ PollReturning /\ tries0 = MaxTries /\ sleeps = MaxTries
  /\ \E i \in 1..Len(procs) :
       Blocked(procs[i]) /\ procs[i].returncode = None

====
